---- MODULE Spec2Model ----
(***************************************************************************)
(* Model of geopy/geocoders/geonames.py: the GeoNames geocoder adapter.    *)
(*                                                                         *)
(* Python values are tagged records so that values of different Python     *)
(* types can be compared: a str is a sequence of one-character strings, a  *)
(* number is an integer count of tenths (52.5 is 525), None is its own     *)
(* tag, and a key that a JSON object does not have is the tag "missing".   *)
(***************************************************************************)
EXTENDS Integers, Sequences, FiniteSets, TLC

VARIABLES self, pc, call, requests, response, result, warnings

vars == <<self, pc, call, requests, response, result, warnings>>

-----------------------------------------------------------------------------
(* Python values *)

Missing == [t |-> "missing", s |-> <<>>, n |-> 0]
None == [t |-> "none", s |-> <<>>, n |-> 0]
Str(chars) == [t |-> "str", s |-> chars, n |-> 0]
Num(tenths) == [t |-> "num", s |-> <<>>, n |-> tenths]
Bool(b) == [t |-> "bool", s |-> <<>>, n |-> IF b THEN 1 ELSE 0]

\* geopy.geocoders.base.DEFAULT_SENTINEL: a plain object, distinct from every
\* value a caller passes
DEFAULT_SENTINEL == [t |-> "sentinel", s |-> <<>>, n |-> 0]

\* Python truth value: empty text, zero, False and None are false; a plain
\* object such as the sentinel is true
Truthy(v) ==
    CASE v.t = "str" -> Len(v.s) > 0
      [] v.t = "num" -> v.n # 0
      [] v.t = "bool" -> v.n # 0
      [] v.t = "sentinel" -> TRUE
      [] OTHER -> FALSE

\* dict.get(key, default) on a JSON object held as a record
Get(d, key, default) == IF d[key].t = "missing" THEN default ELSE d[key]

\* key in dict
HasKey(d, key) == d[key].t # "missing"

\* str.startswith(prefix)
StartsWith(s, prefix) ==
    /\ Len(s) >= Len(prefix)
    /\ SubSeq(s, 1, Len(prefix)) = prefix

\* separator.join(parts)
RECURSIVE Join(_, _)
Join(parts, sep) ==
    IF parts = <<>> THEN <<>>
    ELSE IF Len(parts) = 1 THEN parts[1]
    ELSE parts[1] \o sep \o Join(Tail(parts), sep)

\* str.split(sep) for a one-character separator
RECURSIVE Split(_, _)
Split(s, sep) ==
    IF \A i \in 1..Len(s) : s[i] # sep THEN <<s>>
    ELSE LET i == CHOOSE k \in 1..Len(s) :
                      s[k] = sep /\ \A j \in 1..(k - 1) : s[j] # sep
         IN <<SubSeq(s, 1, i - 1)>> \o Split(SubSeq(s, i + 1, Len(s)), sep)

DigitVal(c) ==
    CASE c = "0" -> 0 [] c = "1" -> 1 [] c = "2" -> 2 [] c = "3" -> 3
      [] c = "4" -> 4 [] c = "5" -> 5 [] c = "6" -> 6 [] c = "7" -> 7
      [] c = "8" -> 8 [] c = "9" -> 9

RECURSIVE DigitsToInt(_)
DigitsToInt(ds) ==
    IF ds = <<>> THEN 0
    ELSE DigitsToInt(SubSeq(ds, 1, Len(ds) - 1)) * 10 + DigitVal(ds[Len(ds)])

\* float(v) of decimal text with at most one fractional digit, or of a number;
\* the value is kept in tenths
Float(v) ==
    IF v.t = "num" THEN v.n
    ELSE LET neg == Len(v.s) > 0 /\ v.s[1] = "-"
             body == IF neg THEN Tail(v.s) ELSE v.s
             parts == Split(body, ".")
             whole == DigitsToInt(parts[1]) * 10
             frac == IF Len(parts) > 1 /\ Len(parts[2]) > 0
                     THEN DigitVal(parts[2][1]) ELSE 0
         IN IF neg THEN 0 - (whole + frac) ELSE whole + frac

-----------------------------------------------------------------------------
(* Outcomes of a call *)

Pending == [kind |-> "pending"]
NoneResult == [kind |-> "None"]
Raise(exc, text) == [kind |-> "error", exc |-> exc, text |-> text]
RaiseArg(exc, text, arg) == [kind |-> "error", exc |-> exc, text |-> text, arg |-> arg]
RaiseMessage(exc, message) == [kind |-> "error", exc |-> exc, message |-> message]

\* geopy.location.Location(address, point, raw)
Location(address, point, raw) ==
    [kind |-> "Location", address |-> address, point |-> point, raw |-> raw]

-----------------------------------------------------------------------------
(* _parse_json *)

NotEnabledPrefix ==
    <<"u", "s", "e", "r", " ", "a", "c", "c", "o", "u", "n", "t", " ",
      "n", "o", "t", " ", "e", "n", "a", "b", "l", "e", "d", " ",
      "t", "o", " ", "u", "s", "e">>

\* the members of [placename, state, country] that are true, as text
Truthies(xs) == SelectSeq(xs, Truthy)

Texts(xs) == [i \in 1..Len(xs) |-> xs[i].s]

\* parse_code joining all three members, empty or not
parse_code_join_all(place) ==
    LET latitude == Get(place, "lat", None)
        longitude == Get(place, "lng", None)
        placename == Get(place, "name", Str(<<>>))
        state == Get(place, "adminName1", Str(<<>>))
        country == Get(place, "countryName", Str(<<>>))
        location == Join(Texts(<<placename, state, country>>), <<",", " ">>)
    IN IF Truthy(latitude) /\ Truthy(longitude)
       THEN Location(location, <<Float(latitude), Float(longitude)>>, place)
       ELSE NoneResult

parse_code(place) ==
    LET latitude == Get(place, "lat", None)
        longitude == Get(place, "lng", None)
        placename == Get(place, "name", None)
        state == Get(place, "adminName1", None)
        country == Get(place, "countryName", None)
        location == Join(Texts(Truthies(<<placename, state, country>>)),
                         <<",", " ">>)
    IN IF Truthy(latitude) /\ Truthy(longitude)
       THEN Location(location, <<Float(latitude), Float(longitude)>>, place)
       ELSE NoneResult

\* truth value of doc.get('status', None): None and the empty object are false
StatusTruthy(doc) ==
    /\ doc.status.present
    /\ \E key \in {"message", "value"} : HasKey(doc.status, key)

\* _parse_json looking at the places before the status
_parse_json_places_first(doc, exactly_one) ==
    LET places == IF doc.geonames.present THEN doc.geonames.items ELSE <<>>
        err == doc.status
    IN IF Len(places) = 0
       THEN NoneResult
       ELSE IF StatusTruthy(doc) /\ HasKey(err, "message")
       THEN IF StartsWith(err.message.s, NotEnabledPrefix)
            THEN RaiseMessage("GeocoderInsufficientPrivileges", err.message.s)
            ELSE RaiseMessage("GeocoderServiceError", err.message.s)
       ELSE IF Truthy(exactly_one)
       THEN parse_code(places[1])
       ELSE [kind |-> "list",
             items |-> [i \in 1..Len(places) |-> parse_code(places[i])]]

\* _parse_json taking the first place that parses when exactly_one
_parse_json_first_valid(doc, exactly_one) ==
    LET places == IF doc.geonames.present THEN doc.geonames.items ELSE <<>>
        err == doc.status
        parsed == [i \in 1..Len(places) |-> parse_code(places[i])]
        valid == SelectSeq(parsed, LAMBDA r : r # NoneResult)
    IN IF StatusTruthy(doc) /\ HasKey(err, "message")
       THEN IF StartsWith(err.message.s, NotEnabledPrefix)
            THEN RaiseMessage("GeocoderInsufficientPrivileges", err.message.s)
            ELSE RaiseMessage("GeocoderServiceError", err.message.s)
       ELSE IF Len(places) = 0
       THEN NoneResult
       ELSE IF Truthy(exactly_one)
       THEN IF valid = <<>> THEN NoneResult ELSE valid[1]
       ELSE [kind |-> "list", items |-> parsed]

\* _parse_json without the test for an empty places array
_parse_json_no_empty_test(doc, exactly_one) ==
    LET places == IF doc.geonames.present THEN doc.geonames.items ELSE <<>>
        err == doc.status
    IN IF StatusTruthy(doc) /\ HasKey(err, "message")
       THEN IF StartsWith(err.message.s, NotEnabledPrefix)
            THEN RaiseMessage("GeocoderInsufficientPrivileges", err.message.s)
            ELSE RaiseMessage("GeocoderServiceError", err.message.s)
       ELSE IF Truthy(exactly_one)
       THEN IF Len(places) = 0
            THEN Raise("IndexError", "list index out of range")
            ELSE parse_code(places[1])
       ELSE [kind |-> "list",
             items |-> [i \in 1..Len(places) |-> parse_code(places[i])]]

_parse_json(doc, exactly_one) ==
    LET places == IF doc.geonames.present THEN doc.geonames.items ELSE <<>>
        err == doc.status
    IN IF StatusTruthy(doc) /\ HasKey(err, "message")
       THEN IF StartsWith(err.message.s, NotEnabledPrefix)
            THEN RaiseMessage("GeocoderInsufficientPrivileges", err.message.s)
            ELSE RaiseMessage("GeocoderServiceError", err.message.s)
       ELSE IF Len(places) = 0
       THEN NoneResult
       ELSE IF Truthy(exactly_one)
       THEN parse_code(places[1])
       ELSE [kind |-> "list",
             items |-> [i \in 1..Len(places) |-> parse_code(places[i])]]

\* geopy.timezone.from_timezone_name(timezone_name, raw)
from_timezone_name(timezone_name, raw) ==
    [kind |-> "Timezone", name |-> timezone_name, raw |-> raw]

\* response["timezoneId"] raises KeyError when the key is not there
_parse_json_timezone(doc) ==
    IF HasKey(doc, "timezoneId")
    THEN from_timezone_name(doc.timezoneId, doc)
    ELSE Raise("KeyError", "timezoneId")

-----------------------------------------------------------------------------
(* Inputs: what callers pass and what the service answers *)

MaxPlaces == 2

Berlin == <<"B", "e", "r", "l", "i", "n">>
Germany == <<"G", "e", "r", "m", "a", "n", "y">>

Place(lat, lng, name, adminName1, countryName) ==
    [lat |-> lat, lng |-> lng, name |-> name,
     adminName1 |-> adminName1, countryName |-> countryName]

\* {"lat": "52.5", "lng": "13.4", "name": "Berlin", "adminName1": "Berlin",
\*  "countryName": "Germany"}
PlaceFull ==
    Place(Str(<<"5", "2", ".", "5">>), Str(<<"1", "3", ".", "4">>),
          Str(Berlin), Str(Berlin), Str(Germany))
\* {"lat": 52.5, "lng": "13", "name": "Berlin", "countryName": "Germany"}
PlaceNoAdmin ==
    Place(Num(525), Str(<<"1", "3">>), Str(Berlin), Missing, Str(Germany))
\* {"lat": "-0.1", "lng": "7", "adminName1": "", "countryName": "Germany"}
PlaceCountryOnly ==
    Place(Str(<<"-", "0", ".", "1">>), Str(<<"7">>), Missing, Str(<<>>),
          Str(Germany))
\* {"lng": "13.4", "name": "Berlin", "adminName1": "Berlin",
\*  "countryName": "Germany"}
PlaceNoLat ==
    Place(Missing, Str(<<"1", "3", ".", "4">>), Str(Berlin), Str(Berlin),
          Str(Germany))
\* {"lat": "52.5", "lng": 0, "name": "Berlin"}
PlaceZeroLng ==
    Place(Str(<<"5", "2", ".", "5">>), Num(0), Str(Berlin), Missing, Missing)

Places == {PlaceFull, PlaceNoAdmin, PlaceCountryOnly, PlaceNoLat, PlaceZeroLng}

SeqsUpTo(S, n) == UNION {[1..k -> S] : k \in 0..n}

GeonamesArrays ==
    {[present |-> FALSE, items |-> <<>>]}
        \cup {[present |-> TRUE, items |-> s] : s \in SeqsUpTo(Places, MaxPlaces)}

\* "user account not enabled to use the requested service"
MsgNotEnabled == NotEnabledPrefix \o <<" ", "i", "t">>
\* "user account"
MsgShort == SubSeq(NotEnabledPrefix, 1, 12)
\* "the user account not enabled to use"
MsgInside == <<"t", "h", "e", " ">> \o NotEnabledPrefix
Messages == {MsgNotEnabled, MsgShort, MsgInside, <<>>}

Status(present, message, value) ==
    [present |-> present, message |-> message, value |-> value]

Statuses ==
    {Status(FALSE, Missing, Missing), Status(TRUE, Missing, Missing),
     Status(TRUE, Missing, Num(150))}
        \cup {Status(TRUE, Str(m), Num(100)) : m \in Messages}

\* bodies of /searchJSON, /findNearbyPlaceNameJSON and /findNearbyJSON
PlaceDocs ==
    {[geonames |-> g, status |-> s, timezoneId |-> Missing] :
        g \in GeonamesArrays, s \in Statuses}

\* bodies of /timezoneJSON
TimezoneDocs ==
    {[geonames |-> [present |-> FALSE, items |-> <<>>],
      status |-> Status(FALSE, Missing, Missing),
      timezoneId |-> Str(<<"C", "E", "T">>)],
     [geonames |-> [present |-> FALSE, items |-> <<>>],
      status |-> Status(TRUE, Str(MsgShort), Num(100)),
      timezoneId |-> Missing]}

Usernames == {None, Str(<<>>), Str(<<"d", "e", "m", "o">>)}
CountryBiases == {None, Str(<<"D", "E">>)}
\* scheme='http' is the default, and the only one the service supports
Schemes == {"http"}

\* a (latitude, longitude, ...) sequence of numbers, written as text, or a string
SeqQuery(items) == [kind |-> "seq", items |-> items, text |-> <<>>]
StrQuery(text) == [kind |-> "str", items |-> <<>>, text |-> text]

ReverseQueries ==
    {SeqQuery(<<<<"1">>, <<"2">>>>), SeqQuery(<<<<"1">>>>),
     SeqQuery(<<<<"1">>, <<"2">>, <<"3">>>>),
     StrQuery(<<"1", ",", "2">>), StrQuery(<<"1", "2">>)}

GeocodeQueries == {Str(Berlin)}

ExactlyOnes == {Bool(TRUE), Bool(FALSE)}
FeatureCodes == {None, Str(<<>>), Str(<<"P", "P", "L">>)}
Langs == {None, Str(<<>>), Str(<<"d", "e">>)}
FindNearbyTypes == {"findNearbyPlaceName", "findNearby", "unknown"}

-----------------------------------------------------------------------------
(* GeoNames *)

domain == <<"a", "p", "i", ".", "g", "e", "o", "n", "a", "m", "e", "s", ".",
            "o", "r", "g">>

geocode_path == "/searchJSON"
reverse_path == "/findNearbyPlaceNameJSON"
reverse_nearby_path == "/findNearbyJSON"
timezone_path == "/timezoneJSON"

\* "%s://%s%s" % (scheme, domain, path)
Api(scheme, path) == <<scheme, domain, path>>

GeoNames(country_bias, username, scheme) ==
    IF username = None
    THEN [state |-> "failed",
          raised |-> Raise("ConfigurationError",
                           "No username given, required for api access.")]
    ELSE [state |-> "ready",
          username |-> username,
          country_bias |-> country_bias,
          scheme |-> scheme,
          api |-> Api(scheme, geocode_path),
          api_reverse |-> Api(scheme, reverse_path),
          api_reverse_nearby |-> Api(scheme, reverse_nearby_path),
          api_timezone |-> Api(scheme, timezone_path)]

NoParams ==
    [q |-> Missing, username |-> Missing, countryBias |-> Missing,
     maxRows |-> Missing, lat |-> Missing, lng |-> Missing,
     featureCode |-> Missing, lang |-> Missing]

\* "?".join((api, urlencode(params)))
Url(api, params) == [api |-> api, params |-> params]

\* the locals of a method when it raises or reaches _call_geocoder
Frame(warned, exactly_one, raised, urls) ==
    [warnings |-> warned, exactly_one |-> exactly_one, raised |-> raised,
     urls |-> urls]

geocode(slf, query, exactly_one) ==
    LET base == [NoParams EXCEPT !.q = query, !.username = slf.username]
        biased == IF Truthy(slf.country_bias)
                  THEN [base EXCEPT !.countryBias = slf.country_bias]
                  ELSE base
        params == IF Truthy(exactly_one)
                  THEN [biased EXCEPT !.maxRows = Num(10)]
                  ELSE biased
    IN Frame(0, exactly_one, Pending, <<Url(slf.api, params)>>)

_reverse_find_nearby_params(slf, lat, lng, feature_code) ==
    LET params == [NoParams EXCEPT !.lat = lat, !.lng = lng,
                                   !.username = slf.username]
    IN IF Truthy(feature_code)
       THEN [params EXCEPT !.featureCode = feature_code]
       ELSE params

_reverse_find_nearby_place_name_params(slf, lat, lng, lang) ==
    LET params == [NoParams EXCEPT !.lat = lat, !.lng = lng,
                                   !.username = slf.username]
    IN IF Truthy(lang)
       THEN [params EXCEPT !.lang = lang]
       ELSE params

\* Geocoder._coerce_point_to_string: "lat,lng" text of a point
_coerce_point_to_string(query) ==
    IF query.kind = "seq" THEN Join(query.items, <<",">>) ELSE query.text

\* lines 179-185: the warning count and the value of exactly_one afterwards
reverse_exactly_one_true(exactly_one) ==
    IF exactly_one = DEFAULT_SENTINEL
    THEN <<1, Bool(TRUE)>>
    ELSE <<0, exactly_one>>

reverse_exactly_one(exactly_one) ==
    IF exactly_one = DEFAULT_SENTINEL
    THEN <<1, Bool(FALSE)>>
    ELSE <<0, exactly_one>>

\* lines 192-218 with feature_code and lang both checked in each mode
reverse_url_strict(slf, lat, lng, feature_code, lang, find_nearby_type) ==
    IF find_nearby_type \in {"findNearbyPlaceName", "findNearby"}
          /\ (Truthy(feature_code) \/ Truthy(lang))
    THEN <<Raise("ValueError", "unsupported param"), <<>>>>
    ELSE IF find_nearby_type = "findNearbyPlaceName"
    THEN <<Pending,
           <<Url(slf.api_reverse,
                 _reverse_find_nearby_place_name_params(slf, lat, lng, lang))>>>>
    ELSE IF find_nearby_type = "findNearby"
    THEN <<Pending,
           <<Url(slf.api_reverse_nearby,
                 _reverse_find_nearby_params(slf, lat, lng, feature_code))>>>>
    ELSE <<RaiseArg("GeocoderQueryError",
                    "find_nearby_type is not supported by geopy",
                    find_nearby_type),
           <<>>>>

\* lines 192-218: what is raised, and the urls built
reverse_url(slf, lat, lng, feature_code, lang, find_nearby_type) ==
    IF find_nearby_type = "findNearbyPlaceName"
    THEN IF Truthy(feature_code)
         THEN <<Raise("ValueError",
                      "find_nearby_type=findNearbyPlaceName does not support the feature_code param"),
                <<>>>>
         ELSE <<Pending,
                <<Url(slf.api_reverse,
                      _reverse_find_nearby_place_name_params(
                          slf, lat, lng, lang))>>>>
    ELSE IF find_nearby_type = "findNearby"
    THEN IF Truthy(lang)
         THEN <<Raise("ValueError",
                      "find_nearby_type=findNearby does not support the lang param"),
                <<>>>>
         ELSE <<Pending,
                <<Url(slf.api_reverse_nearby,
                      _reverse_find_nearby_params(
                          slf, lat, lng, feature_code))>>>>
    ELSE <<RaiseArg("GeocoderQueryError",
                    "find_nearby_type is not supported by geopy",
                    find_nearby_type),
           <<>>>>

\* reverse with the find_nearby_type looked at before the coordinates
reverse_mode_first(slf, query, exactly_one, feature_code, lang, find_nearby_type) ==
    LET eo == reverse_exactly_one(exactly_one)
        parts == Split(_coerce_point_to_string(query), ",")
        early == reverse_url(slf, Str(<<>>), Str(<<>>), feature_code, lang,
                             find_nearby_type)
        built == reverse_url(slf, Str(parts[1]), Str(parts[2]), feature_code,
                             lang, find_nearby_type)
    IN IF early[1] # Pending
       THEN Frame(eo[1], eo[2], early[1], early[2])
       ELSE IF Len(parts) # 2
       THEN Frame(eo[1], eo[2],
                  Raise("ValueError", "Must be a coordinate pair or Point"),
                  <<>>)
       ELSE Frame(eo[1], eo[2], built[1], built[2])

reverse(slf, query, exactly_one, feature_code, lang, find_nearby_type) ==
    LET eo == reverse_exactly_one(exactly_one)
        parts == Split(_coerce_point_to_string(query), ",")
        built == reverse_url(slf, Str(parts[1]), Str(parts[2]), feature_code,
                             lang, find_nearby_type)
    IN IF Len(parts) # 2
       THEN Frame(eo[1], eo[2],
                  Raise("ValueError", "Must be a coordinate pair or Point"),
                  <<>>)
       ELSE Frame(eo[1], eo[2], built[1], built[2])

\* geopy.timezone.ensure_pytz_is_installed
ensure_pytz_is_installed(pytz_available) ==
    IF pytz_available THEN Pending
    ELSE Raise("ConfigurationError", "pytz must be installed")

\* reverse_timezone asking the service a second time
reverse_timezone_twice(slf, query, pytz_available) ==
    LET parts == Split(_coerce_point_to_string(query), ",")
        params == [NoParams EXCEPT !.lat = Str(parts[1]),
                                   !.lng = Str(parts[2]),
                                   !.username = slf.username]
    IN IF ensure_pytz_is_installed(pytz_available) # Pending
       THEN Frame(0, None, ensure_pytz_is_installed(pytz_available), <<>>)
       ELSE IF Len(parts) # 2
       THEN Frame(0, None,
                  Raise("ValueError", "Must be a coordinate pair or Point"),
                  <<>>)
       ELSE Frame(0, None, Pending,
                  <<Url(slf.api_timezone, params), Url(slf.api_timezone, params)>>)

reverse_timezone(slf, query, pytz_available) ==
    LET parts == Split(_coerce_point_to_string(query), ",")
        params == [NoParams EXCEPT !.lat = Str(parts[1]),
                                   !.lng = Str(parts[2]),
                                   !.username = slf.username]
    IN IF ensure_pytz_is_installed(pytz_available) # Pending
       THEN Frame(0, None, ensure_pytz_is_installed(pytz_available), <<>>)
       ELSE IF Len(parts) # 2
       THEN Frame(0, None,
                  Raise("ValueError", "Must be a coordinate pair or Point"),
                  <<>>)
       ELSE Frame(0, None, Pending, <<Url(slf.api_timezone, params)>>)

-----------------------------------------------------------------------------
(* The adapter and one caller *)

Unbuilt == [state |-> "unbuilt"]
NoCall == [method |-> "none"]
NoResponse == [received |-> FALSE]

Init ==
    /\ self = Unbuilt
    /\ pc = "new"
    /\ call = NoCall
    /\ requests = <<>>
    /\ response = NoResponse
    /\ result = Pending
    /\ warnings = 0

\* GeoNames(country_bias=..., username=..., scheme=...)
Construct ==
    /\ pc = "new"
    /\ \E country_bias \in CountryBiases, username \in Usernames,
          scheme \in Schemes :
          /\ self' = GeoNames(country_bias, username, scheme)
          /\ pc' = IF self'.state = "ready" THEN "idle" ELSE "new"
    /\ UNCHANGED <<call, requests, response, result, warnings>>

\* a method runs from its first line until it raises or calls _call_geocoder
Enter(method, args, frame) ==
    /\ self.state = "ready"
    /\ pc = "idle"
    /\ call' = [method |-> method, args |-> args,
                exactly_one |-> frame.exactly_one]
    /\ warnings' = frame.warnings
    /\ requests' = frame.urls
    /\ response' = NoResponse
    /\ result' = frame.raised
    /\ pc' = IF frame.raised = Pending THEN "waiting" ELSE "done"
    /\ UNCHANGED self

Geocode ==
    \E query \in GeocodeQueries, exactly_one \in ExactlyOnes :
        Enter("geocode",
              [query |-> query, exactly_one |-> exactly_one],
              geocode(self, query, exactly_one))

Reverse ==
    \E query \in ReverseQueries,
       exactly_one \in ExactlyOnes \cup {DEFAULT_SENTINEL},
       feature_code \in FeatureCodes, lang \in Langs,
       find_nearby_type \in FindNearbyTypes :
        Enter("reverse",
              [query |-> query, exactly_one |-> exactly_one,
               feature_code |-> feature_code, lang |-> lang,
               find_nearby_type |-> find_nearby_type],
              reverse(self, query, exactly_one, feature_code, lang,
                      find_nearby_type))

ReverseTimezone ==
    \E query \in ReverseQueries, pytz_available \in BOOLEAN :
        Enter("reverse_timezone",
              [query |-> query, pytz_available |-> pytz_available],
              reverse_timezone(self, query, pytz_available))

\* Geocoder._call_geocoder returns the parsed body
CallGeocoderReturns ==
    /\ pc = "waiting"
    /\ \E doc \in IF call.method = "reverse_timezone"
                  THEN TimezoneDocs ELSE PlaceDocs :
          response' = doc
    /\ pc' = "parsing"
    /\ UNCHANGED <<self, call, requests, result, warnings>>

\* Geocoder._call_geocoder raises; the method does not catch it
CallGeocoderRaises ==
    /\ pc = "waiting"
    /\ \E exc \in {"GeocoderTimedOut", "GeocoderUnavailable"} :
          result' = Raise(exc, "transport")
    /\ pc' = "done"
    /\ UNCHANGED <<self, call, requests, response, warnings>>

\* the method parses the body and returns
Parse ==
    /\ pc = "parsing"
    /\ result' = IF call.method = "reverse_timezone"
                 THEN _parse_json_timezone(response)
                 ELSE _parse_json(response, call.exactly_one)
    /\ pc' = "done"
    /\ UNCHANGED <<self, call, requests, response, warnings>>

\* the caller takes the value returned or the exception raised
Return ==
    /\ pc = "done"
    /\ pc' = "idle"
    /\ call' = NoCall
    /\ requests' = <<>>
    /\ response' = NoResponse
    /\ result' = Pending
    /\ warnings' = 0
    /\ UNCHANGED self

Next ==
    \/ Construct
    \/ Geocode
    \/ Reverse
    \/ ReverseTimezone
    \/ CallGeocoderReturns
    \/ CallGeocoderRaises
    \/ Parse
    \/ Return

Spec == Init /\ [][Next]_vars

-----------------------------------------------------------------------------
(* Properties *)

\* a value a caller supplied: text that is not empty
Supplied(v) == v.t = "str" /\ v.s # <<>>

\* a place has both lat and lng: the key is there and its value is neither
\* null, nor empty text, nor zero
HasCoordinate(v) ==
    /\ v.t \in {"str", "num"}
    /\ v # Str(<<>>)
    /\ v # Num(0)

HasLatLng(place) == HasCoordinate(place.lat) /\ HasCoordinate(place.lng)

\* the call went through _parse_json and has returned or raised
ParsedPlaces ==
    /\ pc = "done"
    /\ call.method \in {"geocode", "reverse"}
    /\ response # NoResponse

ResponsePlaces ==
    IF response.geonames.present THEN response.geonames.items ELSE <<>>

HasStatusMessage == response.status.present /\ response.status.message.t = "str"

\* C1: no adapter is ever available whose username is absent or empty.
C1_UsernameNeverEmpty ==
    self.state = "ready" => (self.username.t = "str" /\ self.username.s # <<>>)

\* C2: with exactly_one false the returned list has exactly one Location per
\* place that has both lat and lng, in the order of the response, and no None.
C2_ListHasOnlyRetainedPlaces ==
    (ParsedPlaces /\ result.kind = "list") =>
        LET retained == SelectSeq(ResponsePlaces, HasLatLng)
        IN /\ Len(result.items) = Len(retained)
           /\ \A i \in 1..Len(result.items) :
                 /\ result.items[i].kind = "Location"
                 /\ result.items[i].raw = retained[i]

\* C3: a response with a status message always fails, with
\* GeocoderInsufficientPrivileges when the message begins with "user account
\* not enabled to use" and with GeocoderServiceError otherwise, carrying the
\* message, whatever the places and exactly_one are.
C3_StatusMessageAlwaysRaises ==
    (ParsedPlaces /\ HasStatusMessage) =>
        LET message == response.status.message.s
            begins == \E k \in 0..Len(message) :
                          SubSeq(message, 1, k) = NotEnabledPrefix
        IN /\ result.kind = "error"
           /\ result.exc = IF begins THEN "GeocoderInsufficientPrivileges"
                           ELSE "GeocoderServiceError"
           /\ result.message = message

C3_Witness ==
    /\ ParsedPlaces
    /\ HasStatusMessage
    /\ Len(ResponsePlaces) > 0
    /\ HasLatLng(ResponsePlaces[1])
    /\ call.exactly_one = Bool(TRUE)
    /\ result.kind = "error"
    /\ result.exc = "GeocoderInsufficientPrivileges"

\* C4: with exactly_one true, places in the response and no status message,
\* the result is the Location of the first place when it has both lat and lng
\* and None otherwise, also when a later place has both; it is never a list.
C4_ExactlyOneIsFirstPlace ==
    (/\ ParsedPlaces
     /\ call.exactly_one = Bool(TRUE)
     /\ ~HasStatusMessage
     /\ Len(ResponsePlaces) > 0) =>
        IF HasLatLng(ResponsePlaces[1])
        THEN result.kind = "Location" /\ result.raw = ResponsePlaces[1]
        ELSE result = NoneResult

C4_Witness ==
    /\ ParsedPlaces
    /\ call.exactly_one = Bool(TRUE)
    /\ ~HasStatusMessage
    /\ Len(ResponsePlaces) > 1
    /\ ~HasLatLng(ResponsePlaces[1])
    /\ HasLatLng(ResponsePlaces[2])
    /\ result = NoneResult

\* C5: geocode returns None, never an empty list, when the response has no
\* places (geonames missing or empty) and no status message, for both values
\* of exactly_one.
C5_GeocodeNoPlacesIsNone ==
    (/\ ParsedPlaces
     /\ call.method = "geocode"
     /\ ~HasStatusMessage
     /\ Len(ResponsePlaces) = 0) =>
        result = NoneResult

C5_Witness ==
    /\ ParsedPlaces
    /\ call.method = "geocode"
    /\ call.exactly_one = Bool(FALSE)
    /\ ~HasStatusMessage
    /\ response.geonames.present
    /\ response.geonames.items = <<>>
    /\ result = NoneResult

\* the query is a pair of coordinates
WellFormed(query) ==
    IF query.kind = "seq" THEN Len(query.items) = 2
    ELSE Cardinality({i \in 1..Len(query.text) : query.text[i] = ","}) = 1

IsValueError == result.kind = "error" /\ result.exc = "ValueError"

\* an error the adapter finds by itself, before asking the service
LocalError ==
    /\ result.kind = "error"
    /\ result.exc \in {"ValueError", "GeocoderQueryError", "ConfigurationError"}

\* C6: reverse with a well-formed coordinate pair: with findNearbyPlaceName it
\* raises ValueError if feature_code is supplied and otherwise requests
\* /findNearbyPlaceNameJSON; with findNearby it raises ValueError if lang is
\* supplied and otherwise requests /findNearbyJSON; with any other value it
\* raises GeocoderQueryError naming the value, whatever feature_code and lang.
C6_ReverseSelectsMode ==
    (call.method = "reverse" /\ WellFormed(call.args.query)) =>
        LET args == call.args
            Requested(path) ==
                /\ Len(requests) = 1
                /\ requests[1].api[3] = path
                /\ ~LocalError
        IN CASE args.find_nearby_type = "findNearbyPlaceName" ->
                    IF Supplied(args.feature_code)
                    THEN IsValueError /\ requests = <<>>
                    ELSE Requested(reverse_path)
             [] args.find_nearby_type = "findNearby" ->
                    IF Supplied(args.lang)
                    THEN IsValueError /\ requests = <<>>
                    ELSE Requested(reverse_nearby_path)
             [] OTHER ->
                    /\ result.kind = "error"
                    /\ result.exc = "GeocoderQueryError"
                    /\ result.arg = args.find_nearby_type
                    /\ requests = <<>>

C6_Witness ==
    /\ call.method = "reverse"
    /\ WellFormed(call.args.query)
    /\ call.args.find_nearby_type = "findNearbyPlaceName"
    /\ Supplied(call.args.lang)
    /\ ~Supplied(call.args.feature_code)
    /\ Len(requests) = 1
    /\ requests[1].api[3] = reverse_path
    /\ requests[1].params.lang = call.args.lang

\* C7: reverse called without exactly_one warns once and then has the outcome
\* of the same call with exactly_one=False on the same response: None, a list
\* or the same error, never a single Location.
C7_DefaultIsExactlyOneFalse ==
    (call.method = "reverse" /\ call.args.exactly_one = DEFAULT_SENTINEL) =>
        LET args == call.args
            explicit == reverse(self, args.query, Bool(FALSE),
                                args.feature_code, args.lang,
                                args.find_nearby_type)
        IN /\ warnings = 1
           /\ requests = explicit.urls
           /\ result.kind # "Location"
           /\ pc = "done" =>
                 IF explicit.raised # Pending THEN result = explicit.raised
                 ELSE IF response = NoResponse
                 THEN result.exc \in {"GeocoderTimedOut", "GeocoderUnavailable"}
                 ELSE result = _parse_json(response, Bool(FALSE))

C7_Witness ==
    /\ call.method = "reverse"
    /\ call.args.exactly_one = DEFAULT_SENTINEL
    /\ pc = "done"
    /\ warnings = 1
    /\ result.kind = "list"
    /\ Len(result.items) > 1

\* C8: a call of geocode, reverse or reverse_timezone makes at most one
\* request, and a response is parsed only after that one request returned.
C8_AtMostOneRequest ==
    /\ Len(requests) <= 1
    /\ pc \in {"waiting", "parsing"} => Len(requests) = 1
    /\ response # NoResponse => Len(requests) = 1
    /\ pc = "parsing" => response # NoResponse
    /\ (pc = "done" /\ result.kind \in {"None", "Location", "list", "Timezone"}) =>
          response # NoResponse

C8_Witness ==
    /\ pc = "done"
    /\ call.method = "reverse_timezone"
    /\ result.kind = "Timezone"
    /\ Len(requests) = 1

\* a ", " b, with no separator when either side is empty
CommaSpace(a, b) ==
    IF a = <<>> \/ b = <<>> THEN a \o b ELSE a \o <<",", " ">> \o b

TextOf(v) == IF v.t = "str" THEN v.s ELSE <<>>

\* the coordinates the service sends, as numbers in tenths
Tenths(v) ==
    CASE v = Str(<<"5", "2", ".", "5">>) -> 525
      [] v = Str(<<"1", "3", ".", "4">>) -> 134
      [] v = Str(<<"1", "3">>) -> 130
      [] v = Str(<<"-", "0", ".", "1">>) -> 0 - 1
      [] v = Str(<<"7">>) -> 70
      [] v = Num(525) -> 525

IsLocationOf(r, place) ==
    /\ r.address = CommaSpace(CommaSpace(TextOf(place.name),
                                         TextOf(place.adminName1)),
                              TextOf(place.countryName))
    /\ r.point = <<Tenths(place.lat), Tenths(place.lng)>>
    /\ r.raw = place

\* C9: every Location returned is made of its place: the label is the
\* non-empty members of name, adminName1, countryName in that order joined
\* with ", ", the point is (float(lat), float(lng)), raw is the place.
C9_LocationOfPlace ==
    ParsedPlaces =>
        /\ result.kind = "Location" => IsLocationOf(result, ResponsePlaces[1])
        /\ result.kind = "list" =>
              \A i \in 1..Len(result.items) :
                  result.items[i].kind = "Location" =>
                      IsLocationOf(result.items[i], ResponsePlaces[i])

C9_Witness ==
    /\ ParsedPlaces
    /\ result.kind = "Location"
    /\ result.raw = PlaceNoAdmin
    /\ result.address = Berlin \o <<",", " ">> \o Germany
    /\ result.point = <<525, 130>>

\* C10: an error found locally is raised with no request made; reverse looks
\* at the coordinates before find_nearby_type, and reverse_timezone looks for
\* pytz before the coordinates.
C10_LocalErrorsBeforeRequest ==
    /\ LocalError => (requests = <<>> /\ response = NoResponse)
    /\ (call.method = "reverse" /\ ~WellFormed(call.args.query)) =>
          (/\ pc = "done"
           /\ result = Raise("ValueError", "Must be a coordinate pair or Point")
           /\ requests = <<>>)
    /\ (call.method = "reverse_timezone" /\ ~call.args.pytz_available) =>
          (/\ pc = "done"
           /\ result.kind = "error"
           /\ result.exc = "ConfigurationError"
           /\ requests = <<>>)
    /\ (call.method = "reverse_timezone" /\ call.args.pytz_available
            /\ ~WellFormed(call.args.query)) =>
          (/\ pc = "done"
           /\ result = Raise("ValueError", "Must be a coordinate pair or Point")
           /\ requests = <<>>)

C10_Witness ==
    /\ pc = "done"
    /\ call.method = "reverse"
    /\ ~WellFormed(call.args.query)
    /\ call.args.find_nearby_type = "unknown"
    /\ result = Raise("ValueError", "Must be a coordinate pair or Point")
    /\ requests = <<>>

====
